---- MODULE Spec2Model ----
(***************************************************************************)
(* Model of the two cells of LLM_Text_Summarization_Top10_Colab_Notebook   *)
(* that hold locally authored logic:                                       *)
(*   cell 6b0ee9ed  extractive summarizer (word_freq, sentence_scores,     *)
(*                  nlargest, join)                                        *)
(*   cell a8d3bca5  split_text, the fixed-size word-chunking generator     *)
(* A string is a sequence of characters, a character a one-element string; *)
(* the code points U+0130 and U+0307 are written "U+0130" and "U+0307".    *)
(* A dict is the sequence of its [key, val] items in insertion order.      *)
(***************************************************************************)
EXTENDS Integers, Sequences, FiniteSets

VARIABLES
    pc,                \* position in the running cell
    doc,               \* doc.sents: sequence of sentences, each a sequence of tokens
    K,                 \* number of sentences asked of nlargest (the notebook writes 3)
    ti,                \* index of the next token of `for word in doc`
    word_freq,         \* dict: lowercased text -> count
    si,                \* index of the current sentence of `for sent in doc.sents`
    wi,                \* index of the next token of `for word in sent`
    sentence_scores,   \* dict: sentence (its position) -> score
    summary_sentences, \* list returned by nlargest
    summary,           \* the joined summary string, Unbound before line 142 ran
    prev_summary,      \* summary printed by the previous run of the cell
    text,              \* long_text
    chunk_size,        \* split_text's chunk_size
    words,             \* text.split()
    i,                 \* loop variable of range(0, len(words), chunk_size)
    chunks             \* the chunks yielded so far

vars == <<pc, doc, K, ti, word_freq, si, wi, sentence_scores,
          summary_sentences, summary, prev_summary, text, chunk_size, words, i, chunks>>

extractive_vars == <<doc, K, ti, word_freq, si, wi, sentence_scores,
                     summary_sentences, summary, prev_summary>>

chunking_vars == <<text, chunk_size, words, i, chunks>>

-----------------------------------------------------------------------------
(* Bounds of the model *)

MaxSents == 3
MaxK == 3
MaxTextLen == 6
MaxChunk == 2

\* the value of a name no assignment has bound yet
Unbound == <<"<unbound>">>

-----------------------------------------------------------------------------
(* Python str methods *)

UpperCase == <<"A","B","C","D","E","F","G","H","I","J","K","L","M",
               "N","O","P","Q","R","S","T","U","V","W","X","Y","Z">>

LowerCase == <<"a","b","c","d","e","f","g","h","i","j","k","l","m",
               "n","o","p","q","r","s","t","u","v","w","x","y","z">>

Range(s) == {s[k] : k \in DOMAIN s}

\* str.lower() of one character: U+0130 lowers to the two code points i, U+0307
lower_char(c) ==
    IF \E k \in 1..26 : UpperCase[k] = c
    THEN <<LowerCase[CHOOSE k \in 1..26 : UpperCase[k] = c]>>
    ELSE IF c = "U+0130" THEN <<"i", "U+0307">>
    ELSE <<c>>

RECURSIVE lower(_)
lower(s) == IF s = <<>> THEN <<>> ELSE lower_char(Head(s)) \o lower(Tail(s))

\* U+0307 is a combining mark (category Mn), digits and "." are not letters
isalpha_char(c) == c \in Range(UpperCase) \cup Range(LowerCase) \cup {"U+0130"}

isalpha(s) == Len(s) > 0 /\ \A k \in 1..Len(s) : isalpha_char(s[k])

isspace_char(c) == c \in {" ", "\n", "\t"}

\* sep.join(strs)
RECURSIVE join(_, _)
join(sep, strs) ==
    IF strs = <<>> THEN <<>>
    ELSE IF Len(strs) = 1 THEN strs[1]
    ELSE strs[1] \o sep \o join(sep, Tail(strs))

\* str.split() with no separator: runs of whitespace separate, no empty word
RECURSIVE split_from(_, _, _)
split_from(s, k, cur) ==
    IF k > Len(s) THEN (IF cur = <<>> THEN <<>> ELSE <<cur>>)
    ELSE IF isspace_char(s[k])
         THEN (IF cur = <<>> THEN <<>> ELSE <<cur>>) \o split_from(s, k + 1, <<>>)
         ELSE split_from(s, k + 1, Append(cur, s[k]))

split(s) == split_from(s, 1, <<>>)

\* mutant: the slice stops one element early
slice_short(seq, a, b) ==
    LET hi == IF b - 1 < Len(seq) THEN b - 1 ELSE Len(seq)
    IN  IF a >= hi THEN <<>> ELSE [k \in 1..(hi - a) |-> seq[a + k]]

\* seq[a:b] with 0 <= a, Python slice bounds
slice(seq, a, b) ==
    LET hi == IF b < Len(seq) THEN b ELSE Len(seq)
    IN  IF a >= hi THEN <<>> ELSE [k \in 1..(hi - a) |-> seq[a + k]]

-----------------------------------------------------------------------------
(* Python dict *)

\* mutant: iteration in an order that changes from one run of the cell to the next
dict_keys_per_run(d) ==
    IF prev_summary = Unbound
    THEN [k \in DOMAIN d |-> d[k].key]
    ELSE [k \in DOMAIN d |-> d[Len(d) + 1 - k].key]

dict_keys(d) == [k \in DOMAIN d |-> d[k].key]

dict_has(d, key) == \E k \in DOMAIN d : d[k].key = key

dict_get(d, key, default) ==
    IF dict_has(d, key) THEN d[CHOOSE k \in DOMAIN d : d[k].key = key].val ELSE default

dict_set(d, key, val) ==
    IF dict_has(d, key)
    THEN [k \in DOMAIN d |-> IF d[k].key = key THEN [key |-> key, val |-> val] ELSE d[k]]
    ELSE Append(d, [key |-> key, val |-> val])

-----------------------------------------------------------------------------
(* spaCy: tokens, sentence spans, stop words *)

Tok(txt, ws) == [text |-> txt, whitespace_ |-> ws]

\* the entries of spacy.lang.en.stop_words.STOP_WORDS that the documents below use
STOP_WORDS == { <<"t","h","e">>, <<"a","t">>, <<"i">>, <<"a">> }

RECURSIVE text_with_ws(_)
text_with_ws(sent) ==
    IF sent = <<>> THEN <<>>
    ELSE Head(sent).text \o Head(sent).whitespace_ \o text_with_ws(Tail(sent))

\* Span.text: the tokens' text with their whitespace, less the last token's
span_text(sent) ==
    LET t == text_with_ws(sent)
    IN  IF sent[Len(sent)].whitespace_ # <<>> THEN SubSeq(t, 1, Len(t) - 1) ELSE t

\* `for word in doc`: the tokens of every sentence, in order
RECURSIVE doc_tokens(_)
doc_tokens(d) == IF d = <<>> THEN <<>> ELSE Head(d) \o doc_tokens(Tail(d))

-----------------------------------------------------------------------------
(* heapq.nlargest(n, iterable, key=d.get), line 141 *)

\* max(it, key=key): the first element with the largest key
py_max(iterable, d) ==
    LET best == CHOOSE k \in DOMAIN iterable :
                   /\ \A m \in DOMAIN iterable :
                          dict_get(d, iterable[m], 0) <= dict_get(d, iterable[k], 0)
                   /\ \A m \in 1..(k - 1) :
                          dict_get(d, iterable[m], 0) < dict_get(d, iterable[k], 0)
    IN  iterable[best]

\* mutant: an equal key goes in front, so equal keys come out in reverse order
RECURSIVE insert_desc_unstable(_, _, _)
insert_desc_unstable(sorted, e, d) ==
    IF sorted = <<>> THEN <<e>>
    ELSE IF dict_get(d, Head(sorted), 0) > dict_get(d, e, 0)
         THEN <<Head(sorted)>> \o insert_desc_unstable(Tail(sorted), e, d)
         ELSE <<e>> \o sorted

\* insert e behind every element whose key is >= e's key
RECURSIVE insert_desc(_, _, _)
insert_desc(sorted, e, d) ==
    IF sorted = <<>> THEN <<e>>
    ELSE IF dict_get(d, Head(sorted), 0) >= dict_get(d, e, 0)
         THEN <<Head(sorted)>> \o insert_desc(Tail(sorted), e, d)
         ELSE <<e>> \o sorted

\* sorted(iterable, key=key, reverse=True): stable, equal keys keep their order
RECURSIVE sorted_reverse(_, _)
sorted_reverse(iterable, d) ==
    IF iterable = <<>> THEN <<>>
    ELSE insert_desc(sorted_reverse(SubSeq(iterable, 1, Len(iterable) - 1), d),
                     iterable[Len(iterable)], d)

\* tuple order on the heap entries (k, order, elem); order is unique
entry_lt(a, b) == a.k < b.k \/ (a.k = b.k /\ a.order < b.order)

heap_min(heap) == CHOOSE a \in heap : \A b \in heap : a = b \/ entry_lt(a, b)

\* mutant: the rest of the iterator is never looked at
heap_loop_first_n(heap, rest, order, d) == heap

\* `for elem in it: if top < k: heapreplace(...)`
RECURSIVE heap_loop(_, _, _, _)
heap_loop(heap, rest, order, d) ==
    IF rest = <<>> THEN heap
    ELSE LET elem == Head(rest)
             k    == dict_get(d, elem, 0)
             top  == heap_min(heap)
         IN  IF top.k < k
             THEN heap_loop((heap \ {top}) \cup {[k |-> k, order |-> order, elem |-> elem]},
                            Tail(rest), order - 1, d)
             ELSE heap_loop(heap, Tail(rest), order, d)

\* result.sort(reverse=True); [elem for (k, order, elem) in result]
RECURSIVE heap_sorted(_)
heap_sorted(heap) ==
    IF heap = {} THEN <<>>
    ELSE LET top == CHOOSE a \in heap : \A b \in heap : a = b \/ entry_lt(b, a)
         IN  <<top.elem>> \o heap_sorted(heap \ {top})

nlargest(n, iterable, d) ==
    IF n = 1
    THEN (IF iterable = <<>> THEN <<>> ELSE <<py_max(iterable, d)>>)
    ELSE IF n >= Len(iterable)
    THEN slice(sorted_reverse(iterable, d), 0, n)
    ELSE LET first == {[k |-> dict_get(d, iterable[m], 0), order |-> 1 - m,
                        elem |-> iterable[m]] : m \in 1..n}
         IN  IF first = {} THEN <<>>
             ELSE heap_sorted(heap_loop(first, slice(iterable, n, Len(iterable)), 0 - n, d))

-----------------------------------------------------------------------------
(* Inputs *)

SentCat ==
    <<Tok(<<"C","a","t">>, <<>>),
       Tok(<<".">>, <<" ">>)>>

SentCatLower ==
    <<Tok(<<"c","a","t">>, <<>>),
       Tok(<<".">>, <<" ">>)>>

SentThe ==
    <<Tok(<<"T","h","e">>, <<>>),
       Tok(<<".">>, <<" ">>)>>

SentIDot ==
    <<Tok(<<"U+0130">>, <<>>),
       Tok(<<".">>, <<" ">>)>>

SentDog ==
    <<Tok(<<"i","U+0307">>, <<" ">>),
       Tok(<<"d","o","g">>, <<>>),
       Tok(<<".">>, <<" ">>)>>

SentCatCat ==
    <<Tok(<<"c","a","t">>, <<" ">>),
       Tok(<<"c","a","t">>, <<" ">>)>>

\* sentences the documents are built from
Pool == {SentCat, SentCatLower, SentThe, SentIDot, SentDog, SentCatCat}

\* "The cat sat. The cat ate fish. Dogs bark loudly at night."
CatDoc ==
    << <<Tok(<<"T","h","e">>, <<" ">>),
          Tok(<<"c","a","t">>, <<" ">>),
          Tok(<<"s","a","t">>, <<>>),
          Tok(<<".">>, <<" ">>)>>,
       <<Tok(<<"T","h","e">>, <<" ">>),
          Tok(<<"c","a","t">>, <<" ">>),
          Tok(<<"a","t","e">>, <<" ">>),
          Tok(<<"f","i","s","h">>, <<>>),
          Tok(<<".">>, <<" ">>)>>,
       <<Tok(<<"D","o","g","s">>, <<" ">>),
          Tok(<<"b","a","r","k">>, <<" ">>),
          Tok(<<"l","o","u","d","l","y">>, <<" ">>),
          Tok(<<"a","t">>, <<" ">>),
          Tok(<<"n","i","g","h","t">>, <<>>),
          Tok(<<".">>, <<>>)>> >>

Docs == (UNION {[1..n -> Pool] : n \in 0..MaxSents}) \cup {CatDoc}

Alphabet == {"a", "b", " ", "\n"}

Texts == UNION {[1..n -> Alphabet] : n \in 0..MaxTextLen}

-----------------------------------------------------------------------------
(* Cell 6b0ee9ed: extractive summarization *)

\* mutant: the stopword test is left out
counted_any_alpha(word) == isalpha(word.text)

\* line 130: the filter of the frequency table
counted(word) == lower(word.text) \notin STOP_WORDS /\ isalpha(word.text)

\* line 137: the filter of the sentence score
scored(word, wf) == dict_has(wf, lower(word.text))

\* lines 129-131, one token
CountWord ==
    /\ pc = "count"
    /\ ti <= Len(doc_tokens(doc))
    /\ LET word == doc_tokens(doc)[ti]
           key  == lower(word.text)
       IN  word_freq' = IF counted(word)
                        THEN dict_set(word_freq, key, dict_get(word_freq, key, 0) + 1)
                        ELSE word_freq
    /\ ti' = ti + 1
    /\ UNCHANGED <<pc, doc, K, si, wi, sentence_scores, summary_sentences,
                   summary, prev_summary>>
    /\ UNCHANGED chunking_vars

\* the loop of line 129 is exhausted; line 134
CountDone ==
    /\ pc = "count"
    /\ ti > Len(doc_tokens(doc))
    /\ sentence_scores' = <<>>
    /\ si' = 1 /\ wi' = 1
    /\ pc' = "score"
    /\ UNCHANGED <<doc, K, ti, word_freq, summary_sentences, summary,
                   prev_summary>>
    /\ UNCHANGED chunking_vars

\* lines 135-138, one token of one sentence; the sentence is keyed by its position
ScoreWord ==
    /\ pc = "score"
    /\ si <= Len(doc)
    /\ LET sent == doc[si]
           word == sent[wi]
           key  == lower(word.text)
       IN  /\ sentence_scores' =
                 IF scored(word, word_freq)
                 THEN dict_set(sentence_scores, si,
                               dict_get(sentence_scores, si, 0) + dict_get(word_freq, key, 0))
                 ELSE sentence_scores
           /\ IF wi < Len(sent)
              THEN wi' = wi + 1 /\ si' = si
              ELSE wi' = 1 /\ si' = si + 1
    /\ UNCHANGED <<pc, doc, K, ti, word_freq, summary_sentences, summary,
                   prev_summary>>
    /\ UNCHANGED chunking_vars

\* the loop of line 135 is exhausted; line 141
Select ==
    /\ pc = "score"
    /\ si > Len(doc)
    /\ summary_sentences' = nlargest(K, dict_keys(sentence_scores), sentence_scores)
    /\ pc' = "join"
    /\ UNCHANGED <<doc, K, ti, word_freq, si, wi, sentence_scores, summary,
                   prev_summary>>
    /\ UNCHANGED chunking_vars

\* lines 142-143
Join ==
    /\ pc = "join"
    /\ summary' = join(<<" ">>, [k \in DOMAIN summary_sentences |->
                                    span_text(doc[summary_sentences[k]])])
    /\ pc' = "done"
    /\ UNCHANGED <<doc, K, ti, word_freq, si, wi, sentence_scores,
                   summary_sentences, prev_summary>>
    /\ UNCHANGED chunking_vars

\* the cell is run a second time on the same text: lines 125-128 rebuild everything
Rerun ==
    /\ pc = "done"
    /\ prev_summary = Unbound
    /\ prev_summary' = summary
    /\ word_freq' = <<>> /\ ti' = 1
    /\ sentence_scores' = <<>> /\ si' = 1 /\ wi' = 1
    /\ summary_sentences' = <<>> /\ summary' = Unbound
    /\ pc' = "count"
    /\ UNCHANGED <<doc, K>>
    /\ UNCHANGED chunking_vars

-----------------------------------------------------------------------------
(* Cell a8d3bca5: split_text *)

\* line 163, and the start of the loop of line 164
SplitWords ==
    /\ pc = "split"
    /\ words' = split(text)
    /\ i' = 0
    /\ pc' = "range"
    /\ UNCHANGED <<text, chunk_size, chunks>>
    /\ UNCHANGED extractive_vars

\* lines 164-165, one iteration
Yield ==
    /\ pc = "range"
    /\ i < Len(words)
    /\ chunks' = Append(chunks, join(<<" ">>, slice(words, i, i + chunk_size)))
    /\ i' = i + chunk_size
    /\ UNCHANGED <<pc, text, chunk_size, words>>
    /\ UNCHANGED extractive_vars

\* range() is exhausted: the generator returns and list() of line 170 is complete
Exhausted ==
    /\ pc = "range"
    /\ i >= Len(words)
    /\ pc' = "done"
    /\ UNCHANGED <<text, chunk_size, words, i, chunks>>
    /\ UNCHANGED extractive_vars

-----------------------------------------------------------------------------

Init ==
    /\ pc = "count"
    /\ doc \in Docs
    /\ K \in 1..MaxK
    /\ ti = 1 /\ word_freq = <<>>
    /\ si = 1 /\ wi = 1 /\ sentence_scores = <<>>
    /\ summary_sentences = <<>> /\ summary = Unbound /\ prev_summary = Unbound
    /\ text = <<>> /\ chunk_size = 1 /\ words = <<>> /\ i = 0 /\ chunks = <<>>

Next ==
    \/ CountWord
    \/ CountDone
    \/ ScoreWord
    \/ Select
    \/ Join
    \/ Rerun

Spec == Init /\ [][Next]_vars

ChunkInit ==
    /\ pc = "split"
    /\ text \in Texts
    /\ chunk_size \in 1..MaxChunk
    /\ words = <<>> /\ i = 0 /\ chunks = <<>>
    /\ doc = <<>> /\ K = 1
    /\ ti = 1 /\ word_freq = <<>>
    /\ si = 1 /\ wi = 1 /\ sentence_scores = <<>>
    /\ summary_sentences = <<>> /\ summary = Unbound /\ prev_summary = Unbound

ChunkNext ==
    \/ SplitWords
    \/ Yield
    \/ Exhausted

\* the interpreter keeps executing the cell it was asked to run
ChunkSpec == ChunkInit /\ [][ChunkNext]_vars /\ WF_vars(ChunkNext)

-----------------------------------------------------------------------------
(* Vocabulary of the properties *)

\* line 143 has printed the summary
Summarized == pc = "done"

\* a sentence with no entry in sentence_scores has score 0
ScoreOf(s) == dict_get(sentence_scores, s, 0)

Selected == Range(summary_sentences)

Distinct(seq) == \A a, b \in DOMAIN seq : a # b => seq[a] # seq[b]

RECURSIVE SumSeq(_)
SumSeq(seq) == IF seq = <<>> THEN 0 ELSE Head(seq) + SumSeq(Tail(seq))

RECURSIVE Flatten(_)
Flatten(seqs) == IF seqs = <<>> THEN <<>> ELSE Head(seqs) \o Flatten(Tail(seqs))

\* the summary is the texts of the sentences `sel`, joined by single spaces
IsSummaryOf(sel) ==
    summary = join(<<" ">>, [k \in DOMAIN sel |-> span_text(doc[sel[k]])])

\* the filter as the specification words it: alphabetic, lowercased text no stopword
Filtered(word) == isalpha(word.text) /\ lower(word.text) \notin STOP_WORDS

Occurrences(key) ==
    Cardinality({t \in DOMAIN doc_tokens(doc) :
                    /\ Filtered(doc_tokens(doc)[t])
                    /\ lower(doc_tokens(doc)[t].text) = key})

-----------------------------------------------------------------------------
(* C1 *)

\* C1: for 1 <= K <= sentence-count(D) the summarizer returns exactly K sentences,
\* each the verbatim text of a sentence of D, no sentence twice.
C1_ExactlyKVerbatimSentences ==
    (Summarized /\ 1 <= K /\ K <= Len(doc)) =>
        /\ Len(summary_sentences) = K
        /\ Selected \subseteq 1..Len(doc)
        /\ Distinct(summary_sentences)
        /\ IsSummaryOf(summary_sentences)

-----------------------------------------------------------------------------
(* C2 *)

\* C2: when K exceeds the number of sentences, every sentence of the document is
\* returned, the sentences made only of stopwords or non-alphabetic tokens included.
C2_AllSentencesWhenKExceeds ==
    (Summarized /\ K > Len(doc)) =>
        /\ Selected = 1..Len(doc)
        /\ Len(summary_sentences) = Len(doc)

-----------------------------------------------------------------------------
(* C3 *)

\* C3: the summary string is empty only if the document has no sentence.
C3_EmptyOnlyWithoutSentences ==
    (Summarized /\ Len(doc) >= 1) => summary # <<>>

-----------------------------------------------------------------------------
(* C4 *)

\* C4: summarizing an empty document ends in the error InvalidInput: the cell never
\* completes normally on it and binds no summary string.
C4_EmptyDocumentRaisesInvalidInput ==
    doc = <<>> => (pc # "done" /\ summary = Unbound)

-----------------------------------------------------------------------------
(* C5 *)

\* the table counts exactly the alphabetic non-stopword tokens of the document
TableCountsFiltered ==
    /\ \A k \in DOMAIN word_freq :
           word_freq[k].val >= 1 /\ word_freq[k].val = Occurrences(word_freq[k].key)
    /\ \A t \in DOMAIN doc_tokens(doc) :
           Filtered(doc_tokens(doc)[t]) => dict_has(word_freq, lower(doc_tokens(doc)[t].text))

\* C5: once scoring is complete, the table counts only alphabetic non-stopword tokens
\* and a sentence's score is the sum of the table's counts over exactly its tokens
\* that are alphabetic and no stopword.
C5_ScoreSumsFilteredTokens ==
    pc \in {"join", "done"} =>
        /\ TableCountsFiltered
        /\ \A s \in 1..Len(doc) :
               ScoreOf(s) = SumSeq([t \in DOMAIN doc[s] |->
                                      IF Filtered(doc[s][t])
                                      THEN dict_get(word_freq, lower(doc[s][t].text), 0)
                                      ELSE 0])

-----------------------------------------------------------------------------
(* C7 *)

CatTable ==
    { [key |-> <<"c","a","t">>, val |-> 2],
      [key |-> <<"s","a","t">>, val |-> 1],
      [key |-> <<"a","t","e">>, val |-> 1],
      [key |-> <<"f","i","s","h">>, val |-> 1],
      [key |-> <<"d","o","g","s">>, val |-> 1],
      [key |-> <<"b","a","r","k">>, val |-> 1],
      [key |-> <<"l","o","u","d","l","y">>, val |-> 1],
      [key |-> <<"n","i","g","h","t">>, val |-> 1] }

CatScenario == doc = CatDoc /\ K = 1 /\ Summarized

\* C7 as stated: table {cat:2, sat:1, ate:1, fish:1, dogs:1, bark:1, loudly:1,
\* night:1}, scores S1 = 2, S2 = 3, S3 = 3, and the top-1 choice a tie of S2 and S3.
C7_CatDocTieAsStated ==
    CatScenario =>
        /\ Range(word_freq) = CatTable /\ Len(word_freq) = 8
        /\ ScoreOf(1) = 2 /\ ScoreOf(2) = 3 /\ ScoreOf(3) = 3
        /\ \A s \in 1..3 : ScoreOf(s) <= ScoreOf(2) /\ ScoreOf(s) <= ScoreOf(3)

\* C7 amended: the same table, scores S1 = 3, S2 = 4, S3 = 4, and the top-1 choice
\* is a tie between S2 and S3.
C7_CatDocScores ==
    CatScenario =>
        /\ Range(word_freq) = CatTable /\ Len(word_freq) = 8
        /\ ScoreOf(1) = 3 /\ ScoreOf(2) = 4 /\ ScoreOf(3) = 4
        /\ \A s \in 1..3 : ScoreOf(s) <= ScoreOf(2) /\ ScoreOf(s) <= ScoreOf(3)

C7_Witness == CatScenario /\ prev_summary = Unbound

-----------------------------------------------------------------------------
(* C6 *)

-----------------------------------------------------------------------------
(* C8 *)

\* C8: a sentence selected at K whose score is strictly higher than the score of
\* every sentence not selected at K is also selected at every larger K2.
C8_TopKMonotone ==
    pc \in {"join", "done"} =>
        \A K2 \in (K + 1)..(MaxK + 1) :
            \A s \in Selected :
                (\A u \in (1..Len(doc)) \ Selected : ScoreOf(s) > ScoreOf(u))
                    => s \in Range(nlargest(K2, dict_keys(sentence_scores), sentence_scores))

\* K cuts the scored sentences short, one selected sentence beats every unselected one
C8_Witness ==
    /\ Summarized
    /\ K < Len(sentence_scores)
    /\ \E s \in Selected : \A u \in (1..Len(doc)) \ Selected : ScoreOf(s) > ScoreOf(u)

-----------------------------------------------------------------------------
(* C9 *)

\* a comes before b in the order: score descending, then document position ascending
Before(a, b) == ScoreOf(a) > ScoreOf(b) \/ (ScoreOf(a) = ScoreOf(b) /\ a < b)

\* C9: the selected sentences are the first K of the scored sentences in the order
\* score descending, equal scores in document order, and the summary lists them in
\* that order.
C9_StableScoreDescending ==
    pc \in {"join", "done"} =>
        /\ Len(summary_sentences) =
               (IF K < Len(sentence_scores) THEN K ELSE Len(sentence_scores))
        /\ Selected \subseteq Range(dict_keys(sentence_scores))
        /\ \A a, b \in DOMAIN summary_sentences :
               a < b => Before(summary_sentences[a], summary_sentences[b])
        /\ \A s \in Selected : \A u \in Range(dict_keys(sentence_scores)) \ Selected :
               Before(s, u)
        /\ Summarized => IsSummaryOf(summary_sentences)

\* the summary is out of document order, and a tie was decided for the earlier sentence
C9_Witness ==
    /\ Summarized
    /\ \E a, b \in DOMAIN summary_sentences : a < b /\ summary_sentences[a] > summary_sentences[b]
    /\ \E s \in Selected : \E u \in Range(dict_keys(sentence_scores)) \ Selected :
           ScoreOf(s) = ScoreOf(u)

-----------------------------------------------------------------------------
(* C10 *)

\* positions of s where a maximal run of non-whitespace characters starts
WordStarts(s) ==
    {a \in 1..Len(s) : ~isspace_char(s[a]) /\ (a = 1 \/ isspace_char(s[a - 1]))}

\* the position where the run that starts at a ends
WordEnd(s, a) ==
    CHOOSE b \in a..Len(s) :
        /\ \A k \in a..b : ~isspace_char(s[k])
        /\ (b = Len(s) \/ isspace_char(s[b + 1]))

\* the whitespace-separated words of s, in order
WordsOf(s) ==
    [n \in 1..Cardinality(WordStarts(s)) |->
        LET a == CHOOSE x \in WordStarts(s) :
                     Cardinality({y \in WordStarts(s) : y < x}) = n - 1
        IN  SubSeq(s, a, WordEnd(s, a))]

ChunkWords == [n \in DOMAIN chunks |-> WordsOf(chunks[n])]

\* the chunks of the finished generator partition the words of the text in order
ChunksPartitionWords ==
    pc = "done" =>
        /\ Flatten(ChunkWords) = WordsOf(text)
        /\ \A n \in 1..(Len(chunks) - 1) : Len(ChunkWords[n]) = chunk_size
        /\ chunks # <<>> =>
               /\ 1 <= Len(ChunkWords[Len(chunks)])
               /\ Len(ChunkWords[Len(chunks)]) <= chunk_size
        /\ WordsOf(text) = <<>> => chunks = <<>>

\* C10: for every text and chunk_size >= 1 split_text terminates, and its chunks
\* partition the whitespace-separated words of the text in order: every chunk but
\* the last has chunk_size words, the last between 1 and chunk_size, and a text
\* with no words yields no chunk.
C10_SplitTextPartitions ==
    /\ [](chunk_size >= 1 => ChunksPartitionWords)
    /\ <>(pc = "done")

\* a finished run with several chunks, the last one short, over a text that is
\* not its words joined by single spaces
C10_Witness ==
    /\ pc = "done"
    /\ Len(chunks) >= 2
    /\ Len(ChunkWords[Len(chunks)]) < chunk_size
    /\ text # join(<<" ">>, WordsOf(text))

====
